---- MODULE Spec2Model ----
(***************************************************************************)
(* Model of ml_croissant/_src/datasets.py: the static analysis run by      *)
(* Validator.run_static_analysis when a Dataset is constructed, and the     *)
(* lazy execution of the operation graph by Records.__iter__.               *)
(***************************************************************************)
EXTENDS Integers, Sequences, FiniteSets, TLC

\* ------------------------------------------------------------------ bounds
\* Largest number of issues the stages find in one document.
MaxIssues == 2

\* Largest number of rows of a table read by a row source.
MaxRows == 2

\* ------------------------------------------------------- documents, issues
NodeKinds == {"Metadata", "Distribution", "RecordSet", "Field"}

\* The mandatory property the end-to-end tests name for each node kind.
MandatoryProperty(kind) ==
    CASE kind = "Metadata" -> "https://schema.org/name"
      [] kind = "Distribution" -> "https://schema.org/contentUrl"
      [] kind = "RecordSet" -> "https://schema.org/name"
      [] kind = "Field" -> "https://schema.org/name"

\* A structural violation of one node: a missing mandatory property or a
\* type tag outside the allowed set.
NodeViolations == [kind : NodeKinds, what : {"mandatory", "type"}]

Severities == {"Error", "Warning"}

\* The entry node identifier the feature toggle tests for.
LegacyUid == "Movielens-25M"

Uids == {LegacyUid, "titanic"}

\* The steps of run_static_analysis's try block, in program order.
Stages ==
    << "load_file", "load_rdf_graph", "check_rdf_graph",
       "build_structure_graph", "from_nodes", "check_graph" >>

StageSet == {Stages[i] : i \in 1..Len(Stages)}

\* The stages that receive the Issue Ledger and may record into it after the
\* node check.
LaterStages == {"build_structure_graph", "from_nodes", "check_graph"}

GraphIds == {"GA", "GB"}

\* ------------------------------------------------ computation graphs
\* The operations of the compiled graphs.
Ops == {"d1", "d2", "e1", "r1", "r2", "gX", "gY", "f1", "f2", "f3"}

Kind(op) ==
    CASE op \in {"d1", "d2"} -> "Download"
      [] op = "e1" -> "Extract"
      [] op \in {"r1", "r2"} -> "Read"
      [] op \in {"gX", "gY"} -> "GroupRecordSet"
      [] op \in {"f1", "f2", "f3"} -> "ReadField"

\* operation.node.name of a GroupRecordSet
NodeName(op) ==
    CASE op = "gX" -> "X"
      [] op = "gY" -> "Y"
      [] OTHER -> op

\* operations.nodes[operation].get("kwargs", {})
Kwargs(op) ==
    CASE op = "gX" -> "kwargs(gX)"
      [] op = "r1" -> "kwargs(r1)"
      [] OTHER -> "{}"

\* The graphs compilation produces: nodes and edges in insertion order.
\* GA: one record set behind a download / extract / read chain.
\* GB: two record sets, each behind its own chain; the second chain is the
\* longer one, so that its row source follows the first record set in the
\* topological order.
Graph(id) ==
    CASE id = "GA" ->
            [nodes |-> << "d1", "e1", "r1", "gX", "f1", "f2" >>,
             edges |-> << << "d1", "e1" >>, << "e1", "r1" >>, << "r1", "gX" >>,
                          << "gX", "f1" >>, << "gX", "f2" >> >>]
      [] id = "GB" ->
            [nodes |-> << "d1", "d2", "e1", "r1", "r2", "gX", "gY", "f1", "f3" >>,
             edges |-> << << "d1", "r1" >>, << "d2", "e1" >>, << "d1", "e1" >>,
                          << "e1", "r2" >>,
                          << "r1", "gX" >>, << "r2", "gY" >>, << "gX", "f1" >>,
                          << "gY", "f3" >> >>]

NodeSet(g) == {g.nodes[i] : i \in 1..Len(g.nodes)}

\* The record-set names a caller may ask for; "Z" names no record set.
RecordSetNames == {"X", "Y", "Z"}

\* The generators that may be alive at once.
Iters == {1, 2}

VARIABLES
    doc,         \* the input document: what each stage will find in it
    vpc,         \* position of run_static_analysis
    issues,      \* Validator.issues, the Issue Ledger (a sequence of issues)
    file,        \* Validator.file: "unset" or "loaded"
    operations,  \* Validator.operations: "None" or a computation graph
    exc,         \* the exception caught by the except clause, "none" if none
    outcome,     \* how run_static_analysis (and so Dataset(...)) ended
    logged,      \* the reports passed to logging.warning
    ran,         \* the stages that have run, in order
    dataset,     \* the Dataset object handed to the caller, if any
    world,       \* what the operations of the Dataset do when invoked
    iters        \* the generators created by Records.__iter__

vars ==
    << doc, vpc, issues, file, operations, exc, outcome, logged, ran, dataset,
       world, iters >>

valVars == << doc, vpc, issues, file, operations, exc, outcome, logged, ran >>

\* Issue messages. "detail" is what the message names.
\* 'Property "<P>" is mandatory, but does not exist.'
MandatoryIssue(kind) ==
    [severity |-> "Error", node |-> kind, what |-> "mandatory",
     detail |-> MandatoryProperty(kind)]

\* 'Node should have an attribute `"@type" in <allowed set>'
TypeIssue(kind) ==
    [severity |-> "Error", node |-> kind, what |-> "type", detail |-> "@type"]

NodeIssue(v) ==
    IF v.what = "mandatory" THEN MandatoryIssue(v.kind) ELSE TypeIssue(v.kind)

StageIssue(stage, severity) ==
    [severity |-> severity, node |-> "graph", what |-> "other", detail |-> stage]

\* Issues.errors / Issues.warnings / Issues.report()
Errors(ledger) == SelectSeq(ledger, LAMBDA i : i.severity = "Error")

Warnings(ledger) == SelectSeq(ledger, LAMBDA i : i.severity = "Warning")

Report(ledger) == ledger

\* What a stage appends to the ledger for the document.
Findings(stage) ==
    CASE stage = "check_rdf_graph" ->
            [i \in 1..Len(doc.nodeViolations) |-> NodeIssue(doc.nodeViolations[i])]
      [] stage \in LaterStages ->
            [i \in 1..Len(doc.later[stage]) |-> StageIssue(stage, doc.later[stage][i])]
      [] OTHER -> << >>

\* Every finding of the document, in the order the stages would record them.
AllFindings ==
    Findings("check_rdf_graph") \o Findings("build_structure_graph")
        \o Findings("from_nodes") \o Findings("check_graph")

\* ------------------------------------------------------ operation values
\* What an operation returns: a table of rows, some other value, or None;
\* a row of a table; the value a ReadField extracts from a row.  "Absent"
\* marks an operation with no entry in the results cache.
Value(tag, op, src, rows) == [tag |-> tag, op |-> op, src |-> src, rows |-> rows]

Absent == Value("Absent", "-", "-", 0)

NoneValue(op) == Value("None", op, "-", 0)

PlainOps(g) == {op \in NodeSet(g) : Kind(op) \notin {"GroupRecordSet", "ReadField"}}

RowOps(g) == {op \in NodeSet(g) : Kind(op) \in {"GroupRecordSet", "ReadField"}}

ReadOps == {op \in Ops : Kind(op) = "Read"}

\* At most one operation misbehaves: a plain operation returns None or
\* raises, a ReadField or GroupRecordSet raises on one row.
NoBad == [op |-> "-", mode |-> "ok", row |-> 0]

BadChoices(g) ==
    {NoBad}
        \cup [op : PlainOps(g), mode : {"None", "Fail"}, row : {0}]
        \cup [op : RowOps(g), mode : {"Fail"}, row : 1..MaxRows]

NoWorld == [rows |-> [r \in ReadOps |-> 0], bad |-> NoBad]

\* The data behind a compiled graph: the number of rows each row source
\* reads, and the operation that misbehaves, if any.
Worlds(id) ==
    IF id = "None" THEN {NoWorld}
    ELSE {w \in [rows : [ReadOps -> 0..MaxRows], bad : BadChoices(Graph(id))] :
            \A r \in ReadOps : r \notin NodeSet(Graph(id)) => w.rows[r] = 0}

\* operation(*previous_results, **kwargs) for a plain operation that returns.
Apply(op, args) ==
    IF world.bad.op = op /\ world.bad.mode = "None" THEN NoneValue(op)
    ELSE IF Kind(op) = "Read" THEN Value("Table", op, op, world.rows[op])
    ELSE Value("Blob", op, "-", Len(args))

\* Whether the invocation of op (on the given row, 0 for a plain operation)
\* raises.
Fails(op, row) ==
    world.bad.op = op /\ world.bad.mode = "Fail" /\ world.bad.row = row

\* The i-th line of previous_result.iterrows()
Row(table, i) == Value("Row", table.op, table.op, i)

\* read_field(line, **kwargs)
ReadFieldOnLine(f, line) == Value("Field", f, line.src, line.rows)

\* operation(*read_fields, **kwargs) for a GroupRecordSet: one record
GroupRecordSetApply(op, fields) == [rs |-> NodeName(op), fields |-> fields]

\* One invocation, as recorded in a generator's log.
Call(op, args, kwargs) == [op |-> op, args |-> args, kwargs |-> kwargs]

\* ------------------------------------------------------- graph adjacency
\* operations.successors(v) / operations.predecessors(v), in edge order
Successors(g, v) ==
    LET es == SelectSeq(g.edges, LAMBDA e : e[1] = v)
    IN [i \in 1..Len(es) |-> es[i][2]]

Predecessors(g, v) ==
    LET es == SelectSeq(g.edges, LAMBDA e : e[2] = v)
    IN [i \in 1..Len(es) |-> es[i][1]]

InDegree(g, v) == Len(Predecessors(g, v))

RECURSIVE Relax(_, _, _, _)
\* for child in G.neighbors(node): lower its in-degree, queue it at zero
Relax(children, k, indeg, zero) ==
    IF k > Len(children) THEN [indeg |-> indeg, zero |-> zero]
    ELSE LET c == children[k]
             d == indeg[c] - 1
         IN Relax(children, k + 1, [indeg EXCEPT ![c] = d],
                  IF d = 0 THEN Append(zero, c) ELSE zero)

RECURSIVE Generation(_, _, _, _, _)
\* for node in this_generation
Generation(g, gen, k, indeg, zero) ==
    IF k > Len(gen) THEN [indeg |-> indeg, zero |-> zero]
    ELSE LET r == Relax(Successors(g, gen[k]), 1, indeg, zero)
         IN Generation(g, gen, k + 1, r.indeg, r.zero)

RECURSIVE Generations(_, _, _)
\* while zero_indegree: yield the generation, then the one it frees
Generations(g, zero, indeg) ==
    IF zero = << >> THEN << >>
    ELSE LET r == Generation(g, zero, 1, indeg, << >>)
         IN zero \o Generations(g, r.zero, r.indeg)

\* Mutant of TopologicalSort: the order comes out successors first.
TopologicalSortReversed(g) ==
    LET t == Generations(g, SelectSeq(g.nodes, LAMBDA v : InDegree(g, v) = 0),
                         [v \in NodeSet(g) |-> InDegree(g, v)])
    IN [k \in 1..Len(t) |-> t[Len(t) + 1 - k]]

\* nx.topological_sort(operations): generation by generation, each in
\* insertion order.
TopologicalSort(g) ==
    Generations(g, SelectSeq(g.nodes, LAMBDA v : InDegree(g, v) = 0),
                [v \in NodeSet(g) |-> InDegree(g, v)])

\* ------------------------------------------------------ Records.__iter__
\* results: Mapping[str, Any] = {}
InitialResults == [o \in Ops |-> Absent]

\* A generator: where it stands in the topological order and in the row
\* loop, its results cache, the records it has yielded and the invocations
\* it has made.
NoIter ==
    [pc |-> "none", target |-> "-", order |-> << >>, pos |-> 0,
     table |-> Absent, row |-> 0, results |-> InitialResults,
     yielded |-> << >>, log |-> << >>, error |-> "none"]

\* Mutant of Gather: one results cache shared by every generator (the first
\* generator's), instead of the generator's own.
GatherShared(g, st, op) ==
    LET have == SelectSeq(Predecessors(g, op),
                          LAMBDA p : iters[1].results[p].tag \notin {"Absent", "None"})
    IN [i \in 1..Len(have) |-> iters[1].results[have[i]]]

\* Mutant of Gather: a None result is gathered like any other.
GatherWithNone(g, st, op) ==
    LET have == SelectSeq(Predecessors(g, op),
                          LAMBDA p : st.results[p].tag # "Absent")
    IN [i \in 1..Len(have) |-> st.results[have[i]]]

\* The results of the predecessors that are in the cache and not None.
Gather(g, st, op) ==
    LET have == SelectSeq(Predecessors(g, op),
                          LAMBDA p : st.results[p].tag \notin {"Absent", "None"})
    IN [i \in 1..Len(have) |-> st.results[have[i]]]

\* Mutant of Selected: every record set is processed, whatever its name.
SelectedAny(op, target) == TRUE

\* if operation.node.name != self.record_set: continue
Selected(op, target) == NodeName(op) = target

\* Mutant of SkippedReadField: no operation is skipped.
SkippedReadFieldNever(op, prev) == FALSE

\* if isinstance(operation, ReadField) and not previous_results: continue
SkippedReadField(op, prev) == Kind(op) = "ReadField" /\ prev = << >>

\* Mutant of Fail: the exception is noted and swallowed, and the generator
\* can be resumed past the failing invocation.
FailSwallowed(st, error) == [st EXCEPT !.pc = "suspended", !.error = error]

\* An exception leaves the generator: it is finished.
Fail(st, error) == [st EXCEPT !.pc = "failed", !.error = error]

RECURSIVE ReadFieldsOnOwnKwargs(_, _, _, _, _)
\* Mutant of ReadFieldsOn: each ReadField is given the kwargs stored on its
\* own graph node instead of those of the GroupRecordSet.
ReadFieldsOnOwnKwargs(succs, k, line, kwargs, acc) ==
    IF k > Len(succs) THEN acc
    ELSE LET f == succs[k]
             lg == Append(acc.log, Call(f, << line >>, Kwargs(f)))
         IN IF Kind(f) # "ReadField"
              THEN [acc EXCEPT !.error = "AssertionError"]
              ELSE IF Fails(f, line.rows)
                THEN [acc EXCEPT !.log = lg, !.error = "OperationError"]
                ELSE ReadFieldsOnOwnKwargs(succs, k + 1, line, kwargs,
                                  [acc EXCEPT !.log = lg,
                                              !.fields = Append(@, ReadFieldOnLine(f, line))])

RECURSIVE ReadFieldsOn(_, _, _, _, _)
\* for read_field in operations.successors(operation)
ReadFieldsOn(succs, k, line, kwargs, acc) ==
    IF k > Len(succs) THEN acc
    ELSE LET f == succs[k]
             lg == Append(acc.log, Call(f, << line >>, kwargs))
         IN IF Kind(f) # "ReadField"
              THEN [acc EXCEPT !.error = "AssertionError"]
              ELSE IF Fails(f, line.rows)
                THEN [acc EXCEPT !.log = lg, !.error = "OperationError"]
                ELSE ReadFieldsOn(succs, k + 1, line, kwargs,
                                  [acc EXCEPT !.log = lg,
                                              !.fields = Append(@, ReadFieldOnLine(f, line))])

RECURSIVE RunLoop(_, _)
RECURSIVE RunRows(_, _)

\* Mutant of RowsLeft: the row loop stops one row early.
RowsLeftButLast(st) == st.row < st.table.rows

\* previous_result.iterrows() still has a line to give
RowsLeft(st) == st.row <= st.table.rows

\* Mutant of RunRows: before yielding the record of a row, the ReadFields are
\* already run on the row that follows it.
RunRowsPrefetch(g, st) ==
    LET op == st.order[st.pos]
        kwargs == Kwargs(op)
    IN IF ~RowsLeft(st)
         THEN RunLoop(g, [st EXCEPT !.pos = @ + 1, !.row = 0, !.table = Absent])
         ELSE LET line == Row(st.table, st.row)
                  rf == ReadFieldsOn(Successors(g, op), 1, line, kwargs,
                                     [log |-> st.log, fields |-> << >>,
                                      error |-> "none"])
                  lg == Append(rf.log, Call(op, rf.fields, kwargs))
                  ahead == ReadFieldsOn(Successors(g, op), 1,
                                        Row(st.table, st.row + 1), kwargs,
                                        [log |-> lg, fields |-> << >>,
                                         error |-> "none"])
              IN IF rf.error # "none"
                   THEN Fail([st EXCEPT !.log = rf.log], rf.error)
                   ELSE IF Fails(op, st.row)
                     THEN Fail([st EXCEPT !.log = lg], "OperationError")
                     ELSE [st EXCEPT !.pc = "suspended",
                                     !.log = IF st.row < st.table.rows
                                               THEN ahead.log ELSE lg,
                                     !.yielded = Append(@, GroupRecordSetApply(op, rf.fields))]

\* for _, line in previous_result.iterrows(), from row st.row on: runs to
\* the next yield, or leaves the row loop for the next operation.
RunRows(g, st) ==
    LET op == st.order[st.pos]
        kwargs == Kwargs(op)
    IN IF ~RowsLeft(st)
         THEN RunLoop(g, [st EXCEPT !.pos = @ + 1, !.row = 0, !.table = Absent])
         ELSE LET line == Row(st.table, st.row)
                  rf == ReadFieldsOn(Successors(g, op), 1, line, kwargs,
                                     [log |-> st.log, fields |-> << >>,
                                      error |-> "none"])
                  lg == Append(rf.log, Call(op, rf.fields, kwargs))
              IN IF rf.error # "none"
                   THEN Fail([st EXCEPT !.log = rf.log], rf.error)
                   ELSE IF Fails(op, st.row)
                     THEN Fail([st EXCEPT !.log = lg], "OperationError")
                     ELSE [st EXCEPT !.pc = "suspended", !.log = lg,
                                     !.yielded = Append(@, GroupRecordSetApply(op, rf.fields))]

\* for operation in nx.topological_sort(operations), from position st.pos
\* on: runs to the next yield or to the end of the order.
RunLoop(g, st) ==
    IF st.pos > Len(st.order) THEN [st EXCEPT !.pc = "done"]
    ELSE LET op == st.order[st.pos]
             kwargs == Kwargs(op)
             prev == Gather(g, st, op)
             lg == Append(st.log, Call(op, prev, kwargs))
         IN IF Kind(op) = "GroupRecordSet"
              THEN IF ~Selected(op, st.target)
                     THEN RunLoop(g, [st EXCEPT !.pos = @ + 1])
                     ELSE IF Len(prev) # 1
                       THEN Fail(st, "AssertionError")
                       ELSE IF prev[1].tag # "Table"
                         THEN Fail(st, "AttributeError")
                         ELSE RunRows(g, [st EXCEPT !.table = prev[1], !.row = 1])
              ELSE IF SkippedReadField(op, prev)
                THEN RunLoop(g, [st EXCEPT !.pos = @ + 1])
                ELSE IF Fails(op, 0)
                  THEN Fail([st EXCEPT !.log = lg], "OperationError")
                  ELSE RunLoop(g, [st EXCEPT !.log = lg,
                                             !.results[op] = Apply(op, prev),
                                             !.pos = @ + 1])

NoOutcome == [kind |-> "none", report |-> << >>, cause |-> "none"]

Init ==
    /\ \E exists \in BOOLEAN, uid \in Uids, raiseAt \in StageSet \cup {"none"},
          n1 \in 0..MaxIssues :
         \E n2 \in 0..(MaxIssues - n1) :
           \E n3 \in 0..(MaxIssues - n1 - n2) :
             \E n4 \in 0..(MaxIssues - n1 - n2 - n3) :
               \E nv \in [1..n1 -> NodeViolations],
                  f2 \in [1..n2 -> Severities],
                  f3 \in [1..n3 -> Severities],
                  f4 \in [1..n4 -> Severities] :
                 /\ (~exists => raiseAt = "none" /\ n1 + n2 + n3 + n4 = 0
                                    /\ uid = "titanic")
                 /\ doc = [exists |-> exists, uid |-> uid, raiseAt |-> raiseAt,
                           nodeViolations |-> nv,
                           later |-> [s \in LaterStages |->
                                        CASE s = "build_structure_graph" -> f2
                                          [] s = "from_nodes" -> f3
                                          [] s = "check_graph" -> f4]]
    /\ vpc = "load_file"
    /\ issues = << >>
    /\ file = "unset"
    /\ operations = "None"
    /\ exc = "none"
    /\ outcome = NoOutcome
    /\ logged = << >>
    /\ ran = << >>
    /\ dataset = [exists |-> FALSE, operations |-> "None"]
    /\ world = NoWorld
    /\ iters = [i \in Iters |-> NoIter]

\* ------------------------------------------------- run_static_analysis
\* Mutant of NextStage: the run goes straight to the final check as soon as
\* the ledger holds an error.
NextStageStopOnError(stage) ==
    IF Errors(issues \o Findings(stage)) # << >> THEN "final"
    ELSE CASE stage = "load_file" -> "load_rdf_graph"
           [] stage = "load_rdf_graph" -> "check_rdf_graph"
           [] stage = "check_rdf_graph" -> "build_structure_graph"
           [] stage = "build_structure_graph" -> "toggle"
           [] stage = "from_nodes" -> "check_graph"
           [] stage = "check_graph" -> "final"

\* The statement that follows a stage that returned normally.
NextStage(stage) ==
    CASE stage = "load_file" -> "load_rdf_graph"
      [] stage = "load_rdf_graph" -> "check_rdf_graph"
      [] stage = "check_rdf_graph" -> "build_structure_graph"
      [] stage = "build_structure_graph" -> "toggle"
      [] stage = "from_nodes" -> "check_graph"
      [] stage = "check_graph" -> "final"

\* Mutant of RunStage: the exception of a stage is noted and the next stage
\* runs all the same.
RunStageContinues(stage) ==
    /\ vpc = stage
    /\ ran' = Append(ran, stage)
    /\ issues' = issues \o Findings(stage)
    /\ exc' = IF doc.raiseAt = stage THEN "StageError" ELSE exc
    /\ vpc' = NextStage(stage)

\* A collaborator called inside the try block: it records what it finds in the
\* ledger, then returns or raises.
RunStage(stage) ==
    /\ vpc = stage
    /\ ran' = Append(ran, stage)
    /\ issues' = issues \o Findings(stage)
    /\ IF doc.raiseAt = stage
         THEN exc' = "StageError" /\ vpc' = "except"
         ELSE exc' = exc /\ vpc' = NextStage(stage)

\* _load_file: the path must exist, then the file is opened and parsed.
LoadFile ==
    /\ vpc = "load_file"
    /\ ran' = Append(ran, "load_file")
    /\ IF ~doc.exists
         THEN exc' = "ValueError" /\ vpc' = "except" /\ file' = file
         ELSE IF doc.raiseAt = "load_file"
           THEN exc' = "StageError" /\ vpc' = "except" /\ file' = file
           ELSE exc' = exc /\ vpc' = NextStage("load_file") /\ file' = "loaded"
    /\ UNCHANGED << doc, issues, operations, outcome, logged, dataset, world, iters >>

LoadRdfGraph ==
    /\ RunStage("load_rdf_graph")
    /\ UNCHANGED << doc, file, operations, outcome, logged, dataset, world, iters >>

CheckRdfGraph ==
    /\ RunStage("check_rdf_graph")
    /\ UNCHANGED << doc, file, operations, outcome, logged, dataset, world, iters >>

BuildStructureGraph ==
    /\ RunStage("build_structure_graph")
    /\ UNCHANGED << doc, file, operations, outcome, logged, dataset, world, iters >>

\* if entry_node.uid == "Movielens-25M": return
FeatureToggle ==
    /\ vpc = "toggle"
    /\ IF doc.uid = LegacyUid
         THEN /\ vpc' = "returned"
              /\ outcome' = [kind |-> "returned", report |-> << >>, cause |-> "none"]
         ELSE /\ vpc' = "from_nodes"
              /\ outcome' = outcome
    /\ UNCHANGED << doc, issues, file, operations, exc, logged, ran, dataset, world, iters >>

\* self.operations = ComputationGraph.from_nodes(...): assigned only when the
\* call returns.
FromNodes ==
    /\ RunStage("from_nodes")
    /\ IF doc.raiseAt = "from_nodes"
         THEN operations' = operations
         ELSE \E g \in GraphIds : operations' = g
    /\ UNCHANGED << doc, file, outcome, logged, dataset, world, iters >>

CheckGraph ==
    /\ RunStage("check_graph")
    /\ UNCHANGED << doc, file, operations, outcome, logged, dataset, world, iters >>

\* Mutant of ExceptHandler: every caught exception is wrapped in a
\* ValidationError, whatever the ledger holds.
ExceptHandlerAlwaysWraps ==
    /\ vpc = "except"
    /\ vpc' = "raised"
    /\ outcome' = [kind |-> "ValidationError", report |-> Report(issues),
                   cause |-> exc]
    /\ UNCHANGED << doc, issues, file, operations, exc, logged, ran, dataset, world, iters >>

\* except Exception as exception: ValidationError(report) from exception when
\* the ledger holds an error, the exception itself otherwise.
ExceptHandler ==
    /\ vpc = "except"
    /\ vpc' = "raised"
    /\ outcome' = IF Errors(issues) # << >>
                    THEN [kind |-> "ValidationError", report |-> Report(issues),
                          cause |-> exc]
                    ELSE [kind |-> exc, report |-> << >>, cause |-> "none"]
    /\ UNCHANGED << doc, issues, file, operations, exc, logged, ran, dataset, world, iters >>

\* After the try block: raise on errors, log on warnings, return.
FinalCheck ==
    /\ vpc = "final"
    /\ IF Errors(issues) # << >>
         THEN /\ vpc' = "raised"
              /\ outcome' = [kind |-> "ValidationError", report |-> Report(issues),
                             cause |-> "none"]
              /\ logged' = logged
         ELSE /\ vpc' = "returned"
              /\ outcome' = [kind |-> "returned", report |-> << >>, cause |-> "none"]
              /\ logged' = IF Warnings(issues) # << >>
                             THEN Append(logged, Report(issues))
                             ELSE logged
    /\ UNCHANGED << doc, issues, file, operations, exc, ran, dataset, world, iters >>

\* Mutant of PostInit: the Dataset is handed out even when the static
\* analysis raised.
PostInitDespiteRaise ==
    /\ vpc \in {"returned", "raised"}
    /\ ~dataset.exists
    /\ dataset' = [exists |-> TRUE, operations |-> operations]
    /\ \E w \in Worlds(operations) : world' = w
    /\ UNCHANGED << valVars, iters >>

\* Dataset.__post_init__ once run_static_analysis has returned: the Dataset
\* takes the validator's file and operations.  When it raised, the exception
\* leaves the constructor and no Dataset reaches the caller.  The data the
\* operations will read is fixed from here on.
PostInit ==
    /\ vpc = "returned"
    /\ ~dataset.exists
    /\ dataset' = [exists |-> TRUE, operations |-> operations]
    /\ \E w \in Worlds(operations) : world' = w
    /\ UNCHANGED << valVars, iters >>

\* ----------------------------------------------------- record iteration
\* dataset.records(name) and iter() of the Records view: a generator is
\* created; none of its body has run.
Iter(i, name) ==
    /\ dataset.exists
    /\ iters[i].pc = "none"
    /\ iters' = [iters EXCEPT ![i] = [NoIter EXCEPT !.pc = "new", !.target = name]]
    /\ UNCHANGED << valVars, dataset, world >>

\* Mutant of Start: the results cache is one object shared by the
\* generators (the first generator's), not a fresh one per iteration.
StartSharedCache(i) ==
    /\ iters[i].pc = "new"
    /\ iters' = [iters EXCEPT ![i] =
                   IF dataset.operations = "None"
                     THEN Fail(@, "AttributeError")
                     ELSE LET g == Graph(dataset.operations)
                          IN RunLoop(g, [@ EXCEPT !.results = iters[1].results,
                                                  !.order = TopologicalSort(g),
                                                  !.pos = 1])]
    /\ UNCHANGED << valVars, dataset, world >>

\* The first next() on a generator: the body runs from its first line to the
\* first yield, to the end, or to an exception.
Start(i) ==
    /\ iters[i].pc = "new"
    /\ iters' = [iters EXCEPT ![i] =
                   IF dataset.operations = "None"
                     THEN Fail(@, "AttributeError")
                     ELSE LET g == Graph(dataset.operations)
                          IN RunLoop(g, [@ EXCEPT !.results = InitialResults,
                                                  !.order = TopologicalSort(g),
                                                  !.pos = 1])]
    /\ UNCHANGED << valVars, dataset, world >>

\* A later next(): the body resumes after the yield, with the next row.
Resume(i) ==
    /\ iters[i].pc = "suspended"
    /\ iters' = [iters EXCEPT ![i] =
                   RunRows(Graph(dataset.operations), [@ EXCEPT !.row = @ + 1])]
    /\ UNCHANGED << valVars, dataset, world >>

Next ==
    \/ LoadFile
    \/ LoadRdfGraph
    \/ CheckRdfGraph
    \/ BuildStructureGraph
    \/ FeatureToggle
    \/ FromNodes
    \/ CheckGraph
    \/ ExceptHandler
    \/ FinalCheck
    \/ PostInit
    \/ \E i \in Iters, name \in RecordSetNames : Iter(i, name)
    \/ \E i \in Iters : Start(i)
    \/ \E i \in Iters : Resume(i)

Spec == Init /\ [][Next]_vars

\* ======================================================= properties
Range(seq) == {seq[i] : i \in 1..Len(seq)}

\* The run of run_static_analysis is over.
RunOver == vpc \in {"returned", "raised"}

\* A generator is finished: exhausted, or left by an exception.
Complete(st) == st.pc \in {"done", "failed"}

\* The GroupRecordSet operations of graph g named name.
GroupsNamed(g, name) ==
    {op \in NodeSet(g) : Kind(op) = "GroupRecordSet" /\ NodeName(op) = name}

\* The records of record set gop, one per row of its row source's table, in
\* row order, each holding what every ReadField successor reads on that row.
ExpectedRecords(g, gop) ==
    LET src == Predecessors(g, gop)[1]
        fs == Successors(g, gop)
    IN [k \in 1..world.rows[src] |->
          [rs |-> NodeName(gop),
           fields |-> [j \in 1..Len(fs) |-> Value("Field", fs[j], src, k)]]]

\* C1: a run of the static analysis never returns normally while the ledger
\* holds an Error; it ends by raising ValidationError.
C1_NoReturnWithErrors ==
    vpc = "returned" => Errors(issues) = << >>

C3_NodeViolationRaises ==
    (RunOver /\ doc.exists /\ doc.raiseAt \notin {"load_file", "load_rdf_graph"})
        => \A k \in 1..Len(doc.nodeViolations) :
             /\ outcome.kind = "ValidationError"
             /\ NodeIssue(doc.nodeViolations[k]) \in Range(outcome.report)

\* C4: a finished iteration over a record set of the graph whose row source
\* gives a table of n rows, with no operation failing, ended normally and
\* yielded exactly n records, the i-th assembled from the i-th row.
C4_OneRecordPerRow ==
    \A i \in Iters :
      LET st == iters[i]
      IN (Complete(st) /\ dataset.operations # "None" /\ world.bad.mode # "Fail")
           => \A gop \in GroupsNamed(Graph(dataset.operations), st.target) :
                LET g == Graph(dataset.operations)
                    src == Predecessors(g, gop)[1]
                IN world.bad # [op |-> src, mode |-> "None", row |-> 0]
                     => /\ st.pc = "done"
                        /\ Len(st.yielded) = world.rows[src]
                        /\ st.yielded = ExpectedRecords(g, gop)

C4_Witness ==
    \E i \in Iters :
      /\ iters[i].pc = "done"
      /\ iters[i].target = "X"
      /\ world.bad.mode # "Fail"
      /\ world.rows["r1"] = MaxRows
      /\ Len(iters[i].yielded) = MaxRows

C6_AbsentNameYieldsNothing ==
    \A i \in Iters :
      LET st == iters[i]
      IN (st.pc # "none" /\ dataset.operations # "None"
            /\ GroupsNamed(Graph(dataset.operations), st.target) = {})
           => /\ st.yielded = << >>
              /\ st.error \in {"none", "OperationError"}
              /\ st.pc \in {"new", "done", "failed"}
              /\ (st.pc = "failed" => world.bad.mode = "Fail")

C6_Witness ==
    \E i \in Iters :
      /\ iters[i].pc = "done"
      /\ iters[i].target = "Z"
      /\ iters[i].log # << >>
      /\ \E r \in ReadOps : world.rows[r] > 0

\* C7: a Dataset whose construction returned holds a compiled computation
\* graph that went through the computation-graph check.
C7_DatasetHoldsGraph ==
    dataset.exists => (dataset.operations # "None" /\ "check_graph" \in Range(ran))

\* C8: when the static analysis raised, no Dataset exists, no generator was
\* created and no operation was invoked; operations are invoked only by
\* generators of a Dataset whose analysis returned.
C8_ValidationBeforeExecution ==
    /\ vpc = "raised" => (~dataset.exists /\ \A i \in Iters : iters[i] = NoIter)
    /\ \A i \in Iters :
         iters[i].pc # "none" => (vpc = "returned" /\ outcome.kind = "returned"
                                    /\ dataset.exists)
    /\ ~dataset.exists => \A i \in Iters : iters[i].log = << >>

C8_Witness ==
    /\ vpc = "raised"
    /\ outcome.kind = "ValidationError"
    /\ operations # "None"
    /\ ~dataset.exists

\* C9: a run in which no stage raised and that ends with warnings and no
\* error in the ledger returns with the compiled computation graph and has
\* logged the ledger report exactly once.
C9_WarningsLoggedOnce ==
    (RunOver /\ exc = "none" /\ Errors(issues) = << >> /\ Warnings(issues) # << >>)
        => /\ outcome.kind = "returned"
           /\ operations # "None"
           /\ logged = << Report(issues) >>

\* C10: when the document path does not exist, only the load step runs,
\* nothing is recorded in the ledger, and the caller receives the ValueError
\* itself, not a ValidationError.
C10_MissingFileRaisesValueError ==
    ~doc.exists
        => /\ Range(ran) \subseteq {"load_file"}
           /\ issues = << >>
           /\ file = "unset"
           /\ operations = "None"
           /\ vpc \in {"load_file", "except", "raised"}
           /\ (vpc = "raised"
                 => outcome = [kind |-> "ValueError", report |-> << >>,
                               cause |-> "none"])

C10_Witness ==
    ~doc.exists /\ vpc = "raised" /\ outcome.kind = "ValueError"

\* The invocations of op in a generator's log.
CallsOf(log, op) == SelectSeq(log, LAMBDA c : c.op = op)

IsPrefix(s, t) == Len(s) <= Len(t) /\ \A k \in 1..Len(s) : s[k] = t[k]

\* C11: when the k-th record is handed to the consumer, the target
\* GroupRecordSet and each of its ReadField successors have been invoked k
\* times, on rows 1..k only, and no other operation that follows the
\* GroupRecordSet in the topological order has been invoked; those run only
\* once the row loop is left, after the request that follows the last row.
C11_PullBased ==
    \A i \in Iters :
      LET st == iters[i]
      IN st.pc = "suspended"
           => LET g == Graph(dataset.operations)
                  gop == st.order[st.pos]
                  k == Len(st.yielded)
                  fs == Range(Successors(g, gop))
              IN /\ k >= 1
                 /\ st.row = k
                 /\ k <= st.table.rows
                 /\ Len(CallsOf(st.log, gop)) = k
                 /\ \A f \in fs : Len(CallsOf(st.log, f)) = k
                 /\ \A c \in Range(st.log) :
                      c.op \in fs => c.args[1].rows \in 1..k
                 /\ \A q \in (st.pos + 1)..Len(st.order) :
                      st.order[q] \notin fs => CallsOf(st.log, st.order[q]) = << >>

\* The last record has been handed over and a row source of the other record
\* set, later in the order, has not run yet.
C11_Witness ==
    \E i \in Iters :
      /\ iters[i].pc = "suspended"
      /\ iters[i].target = "X"
      /\ Len(iters[i].yielded) = MaxRows
      /\ iters[i].table.rows = MaxRows
      /\ \E q \in (iters[i].pos + 1)..Len(iters[i].order) :
           Kind(iters[i].order[q]) = "Read"

\* What holds of a generator that an invocation has failed in.
FailedAtInvocation(st) ==
    st.error # "none"
      => /\ st.pc = "failed"
         /\ st.error = "OperationError"
              => /\ st.log # << >>
                 /\ LET last == st.log[Len(st.log)]
                    IN /\ last.op = world.bad.op
                       /\ world.bad.mode = "Fail"
                       /\ Len(SelectSeq(st.log, LAMBDA c : c = last)) = 1

\* C12: a failing invocation ends the iteration: it is the last invocation
\* of the generator and was made once; from then on the generator invokes
\* nothing and yields nothing; the records yielded before stay yielded.
C12_FailureEndsIteration ==
    /\ [](\A i \in Iters : FailedAtInvocation(iters[i]))
    /\ [][\A i \in Iters :
            /\ iters[i].error # "none" => iters'[i] = iters[i]
            /\ iters[i].pc # "none"
                 => IsPrefix(iters[i].yielded, iters'[i].yielded)]_vars

\* A ReadField or the GroupRecordSet failed on the second row, after the
\* record of the first row was yielded.
C12_Witness ==
    \E i \in Iters :
      /\ iters[i].pc = "failed"
      /\ iters[i].error = "OperationError"
      /\ Len(iters[i].yielded) = 1
      /\ world.bad.row = 2

\* The position of op in a sequence without repetition (0 if absent).
IndexOf(seq, op) ==
    IF op \in Range(seq) THEN CHOOSE k \in 1..Len(seq) : seq[k] = op ELSE 0

\* The records an iteration over name yields when it runs alone, from what
\* the operations do: none if no record set bears the name, if a plain
\* operation visited before the record set raises or if the row source
\* returns None; otherwise one per row, up to the row on which a ReadField
\* or the GroupRecordSet raises.
AloneRecords(g, name) ==
    IF GroupsNamed(g, name) = {} THEN << >>
    ELSE LET gop == CHOOSE o \in GroupsNamed(g, name) : TRUE
             src == Predecessors(g, gop)[1]
             order == TopologicalSort(g)
             all == ExpectedRecords(g, gop)
             bad == world.bad
         IN IF /\ bad.op \in PlainOps(g)
               /\ \/ bad.mode = "Fail" /\ IndexOf(order, bad.op) < IndexOf(order, gop)
                  \/ bad.mode = "None" /\ bad.op = src
              THEN << >>
              ELSE IF bad.op \in {gop} \cup Range(Successors(g, gop))
                      /\ bad.row <= Len(all)
                THEN SubSeq(all, 1, bad.row - 1)
                ELSE all

\* The cache of a generator holds exactly the results of the plain
\* operations that this generator has invoked and that returned.
OwnCache(g, st) ==
    \A op \in Ops :
      st.results[op] # Absent
        <=> /\ op \in PlainOps(g)
            /\ CallsOf(st.log, op) # << >>
            /\ ~Fails(op, 0)

\* C13: whatever the interleaving of the requests of two iterations over one
\* Dataset, each yields the records it yields when run alone; the cache of
\* each holds its own results only; a request to one generator changes
\* neither the other generator nor the Dataset, its graph and its data.
C13_IndependentIterations ==
    /\ [](\A i \in Iters :
            (iters[i].pc \notin {"none", "new"} /\ dataset.operations # "None")
              => LET g == Graph(dataset.operations)
                     alone == AloneRecords(g, iters[i].target)
                 IN /\ IsPrefix(iters[i].yielded, alone)
                    /\ Complete(iters[i]) => iters[i].yielded = alone
                    /\ OwnCache(g, iters[i]))
    /\ [][/\ \A i, j \in Iters :
               (i # j /\ iters'[i] # iters[i]) => iters'[j] = iters[j]
          /\ dataset.exists => (dataset' = dataset /\ world' = world
                                  /\ operations' = operations)]_vars

\* Two iterations over different record sets, both under way: the first has
\* been given a record while the second, started later, is suspended too.
C13_Witness ==
    /\ iters[1].pc = "suspended" /\ iters[2].pc = "suspended"
    /\ iters[1].target = "X" /\ iters[2].target = "Y"
    /\ Len(iters[1].yielded) = 1 /\ Len(iters[2].yielded) = 2

\* The invocations a generator made from the loop over the order (not from
\* the row loop): those of plain operations.
PlainCalls(g, log) == SelectSeq(log, LAMBDA c : c.op \in PlainOps(g))

\* C14: the order a generator walks holds every operation of the graph once,
\* each after all its predecessors; the walk only moves forward; every plain
\* operation is invoked at most once, in that order, and a cache entry, once
\* written, is never written again.
C14_EachOperationOnce ==
    /\ [](\A i \in Iters :
            (iters[i].pc \notin {"none", "new"} /\ dataset.operations # "None")
              => LET g == Graph(dataset.operations)
                     st == iters[i]
                     pc == PlainCalls(g, st.log)
                 IN /\ Len(st.order) = Len(g.nodes)
                    /\ Range(st.order) = NodeSet(g)
                    /\ \A e \in Range(g.edges) :
                         IndexOf(st.order, e[1]) < IndexOf(st.order, e[2])
                    /\ \A op \in PlainOps(g) : Len(CallsOf(st.log, op)) <= 1
                    /\ \A a, b \in 1..Len(pc) :
                         a < b => IndexOf(st.order, pc[a].op) < IndexOf(st.order, pc[b].op)
                    /\ \A c \in Range(pc) : IndexOf(st.order, c.op) <= st.pos
                    /\ st.pc = "done" => st.pos = Len(st.order) + 1)
    /\ [][\A i \in Iters :
            iters[i].pc \notin {"none", "new"}
              => /\ iters'[i].pos >= iters[i].pos
                 /\ iters'[i].order = iters[i].order
                 /\ \A op \in Ops :
                      iters[i].results[op] # Absent
                        => iters'[i].results[op] = iters[i].results[op]]_vars

\* An iteration over the two-chain graph has ended after a request that
\* resumed it: every plain operation has been invoked, those of the second
\* chain after the records of the first.
C14_Witness ==
    \E i \in Iters :
      /\ iters[i].pc = "done"
      /\ dataset.operations = "GB"
      /\ Len(iters[i].yielded) = MaxRows
      /\ \A op \in PlainOps(Graph("GB")) : Len(CallsOf(iters[i].log, op)) = 1

\* C15: the assertion that the target GroupRecordSet has one and only one
\* predecessor result never fails, whatever the predecessor returned.
C15_AssertionNeverFails ==
    \A i \in Iters : iters[i].error # "AssertionError"

\* The ReadField successors of the GroupRecordSets named name.
FieldsOf(g, name) ==
    UNION {Range(Successors(g, o)) : o \in GroupsNamed(g, name)}

\* C16: every record yielded is what a GroupRecordSet bearing the target
\* name returned; a GroupRecordSet of another name is never invoked, the
\* table of its row source is never iterated, its ReadFields are never
\* invoked, and no GroupRecordSet has a cache entry.
C16_OnlyTargetRecordSet ==
    \A i \in Iters :
      (iters[i].pc \notin {"none", "new"} /\ dataset.operations # "None")
        => LET g == Graph(dataset.operations)
               st == iters[i]
               tg == GroupsNamed(g, st.target)
           IN /\ \A r \in Range(st.yielded) :
                   /\ r.rs = st.target
                   /\ \E c \in Range(st.log) :
                        c.op \in tg /\ r = GroupRecordSetApply(c.op, c.args)
              /\ \A c \in Range(st.log) :
                   /\ Kind(c.op) = "GroupRecordSet" => c.op \in tg
                   /\ Kind(c.op) = "ReadField" => c.op \in FieldsOf(g, st.target)
              /\ \A o \in NodeSet(g) :
                   Kind(o) = "GroupRecordSet" => st.results[o] = Absent
              /\ st.table # Absent
                   => st.table.op \in {Predecessors(g, o)[1] : o \in tg}

\* An iteration over X has ended with records while the other record set of
\* the graph had rows to give: its row source ran, its table was left alone.
C16_Witness ==
    \E i \in Iters :
      /\ iters[i].pc = "done"
      /\ iters[i].target = "X"
      /\ dataset.operations = "GB"
      /\ Len(iters[i].yielded) >= 1
      /\ world.rows["r2"] >= 1
      /\ CallsOf(iters[i].log, "r2") # << >>
      /\ CallsOf(iters[i].log, "f3") = << >>

\* The invocations a generator made from the row loop.
RowCalls(g, log) == SelectSeq(log, LAMBDA c : c.op \in RowOps(g))

\* The invocations of the row loop of gop over the first k rows of table:
\* row by row, every successor on the row, in successor order, then gop on
\* what they returned, all with the kwargs of gop.
ExpectedRowCalls(g, gop, table, k) ==
    LET fs == Successors(g, gop)
        m == Len(fs)
    IN [t \in 1..(k * (m + 1)) |->
          LET row == ((t - 1) \div (m + 1)) + 1
              j == ((t - 1) % (m + 1)) + 1
              line == Value("Row", table, table, row)
          IN IF j <= m
               THEN Call(fs[j], << line >>, Kwargs(gop))
               ELSE Call(gop, [q \in 1..m |-> Value("Field", fs[q], table, row)],
                         Kwargs(gop))]

\* C17: the row loop invokes, for each row in turn, every successor of the
\* target GroupRecordSet once on that row with the GroupRecordSet's kwargs,
\* then the GroupRecordSet on their results in successor order; when the
\* record of row k has been yielded, nothing has been invoked on row k+1.
C17_RowLoopOrder ==
    \A i \in Iters :
      (iters[i].pc \notin {"none", "new"} /\ dataset.operations # "None")
        => LET g == Graph(dataset.operations)
               st == iters[i]
               tg == GroupsNamed(g, st.target)
               calls == RowCalls(g, st.log)
           IN IF tg = {} THEN calls = << >>
              ELSE LET gop == CHOOSE o \in tg : TRUE
                       src == Predecessors(g, gop)[1]
                   IN /\ IsPrefix(calls,
                                  ExpectedRowCalls(g, gop, src, world.rows[src]))
                      /\ st.pc \in {"suspended", "done"}
                           => calls = ExpectedRowCalls(g, gop, src, Len(st.yielded))

\* The second record of a record set with two ReadFields has been yielded.
C17_Witness ==
    \E i \in Iters :
      /\ iters[i].pc = "suspended"
      /\ iters[i].target = "X"
      /\ dataset.operations = "GA"
      /\ Len(iters[i].yielded) = 2
      /\ Len(RowCalls(Graph("GA"), iters[i].log)) = 6

\* C18: no GroupRecordSet and no ReadField ever has a cache entry, a
\* ReadField is never invoked without a row, a ReadField of another record
\* set is never invoked, and an iteration that ran to its end invoked each
\* ReadField of the target once per row of the target's table.
C18_ReadFieldsOnlyOnRows ==
    \A i \in Iters :
      (iters[i].pc \notin {"none", "new"} /\ dataset.operations # "None")
        => LET g == Graph(dataset.operations)
               st == iters[i]
           IN /\ \A o \in RowOps(g) : st.results[o] = Absent
              /\ \A c \in Range(st.log) :
                   Kind(c.op) = "ReadField"
                     => /\ Len(c.args) = 1
                        /\ c.args[1].tag = "Row"
                        /\ c.op \in FieldsOf(g, st.target)
              /\ st.pc = "done"
                   => \A gop \in GroupsNamed(g, st.target) :
                        \A f \in Range(Successors(g, gop)) :
                          Len(CallsOf(st.log, f))
                            = world.rows[Predecessors(g, gop)[1]]

\* An iteration over X went through the whole order, past the ReadFields of
\* both record sets, with as many rows as the bound allows.
C18_Witness ==
    \E i \in Iters :
      /\ iters[i].pc = "done"
      /\ iters[i].target = "X"
      /\ dataset.operations = "GB"
      /\ world.rows["r1"] = MaxRows
      /\ world.rows["r2"] >= 1
      /\ Len(CallsOf(iters[i].log, "f1")) = MaxRows
      /\ iters[i].pos = Len(iters[i].order) + 1

RECURSIVE ExpectedResult(_, _)
RECURSIVE ExpectedArgs(_, _)
\* What the plain operation op is to be given: what each of its predecessors
\* returns, those that return None left out, in predecessor order.
ExpectedArgs(g, op) ==
    LET ps == SelectSeq(Predecessors(g, op),
                        LAMBDA p : ExpectedResult(g, p).tag # "None")
    IN [k \in 1..Len(ps) |-> ExpectedResult(g, ps[k])]

\* What the plain operation op returns when given that.
ExpectedResult(g, op) == Apply(op, ExpectedArgs(g, op))

\* C19: a plain operation is invoked with the results of its predecessors
\* that are not None, in predecessor order, which are the entries the cache
\* holds for them, and with the kwargs of its node; what it returns, None
\* included, is its cache entry; None is never an argument.
C19_PlainInvocation ==
    \A i \in Iters :
      (iters[i].pc \notin {"none", "new"} /\ dataset.operations # "None")
        => LET g == Graph(dataset.operations)
               st == iters[i]
           IN /\ \A c \in Range(PlainCalls(g, st.log)) :
                   LET ps == SelectSeq(Predecessors(g, c.op),
                                       LAMBDA p : st.results[p].tag
                                                    \notin {"Absent", "None"})
                   IN /\ c.args = ExpectedArgs(g, c.op)
                      /\ c.args = [k \in 1..Len(ps) |-> st.results[ps[k]]]
                      /\ c.kwargs = Kwargs(c.op)
                      /\ \A k \in 1..Len(c.args) : c.args[k].tag # "None"
                      /\ ~Fails(c.op, 0) => st.results[c.op] = ExpectedResult(g, c.op)
              /\ \A op \in PlainOps(g) :
                   st.results[op] # Absent
                     => /\ CallsOf(st.log, op) # << >>
                        /\ st.results[op] = ExpectedResult(g, op)

\* d1 returned None: None is its cache entry, r1 was invoked with nothing
\* and e1, which follows d2 and d1, with the result of d2 alone.
C19_Witness ==
    \E i \in Iters :
      /\ dataset.operations = "GB"
      /\ iters[i].pc \in {"suspended", "done", "failed"}
      /\ iters[i].results["d1"].tag = "None"
      /\ CallsOf(iters[i].log, "r1") = << Call("r1", << >>, Kwargs("r1")) >>
      /\ CallsOf(iters[i].log, "e1")
           = << Call("e1", << iters[i].results["d2"] >>, Kwargs("e1")) >>
      /\ iters[i].results["d2"].tag # "None"

\* C20: once a stage has raised, no further stage runs and the ledger is
\* left as it is; the run ends by raising ValidationError with the report
\* and the exception as its cause when the ledger holds an Error, and the
\* exception itself otherwise; it never returns.
C20_StageRaiseOutcome ==
    /\ []((doc.raiseAt \in Range(ran) => exc # "none")
          /\ (exc # "none"
                => /\ vpc \in {"except", "raised"}
                   /\ ran # << >>
                   /\ doc.exists => ran[Len(ran)] = doc.raiseAt
                   /\ ~dataset.exists
                   /\ vpc = "raised"
                        => outcome = IF Errors(issues) # << >>
                                       THEN [kind |-> "ValidationError",
                                             report |-> Report(issues),
                                             cause |-> exc]
                                       ELSE [kind |-> exc, report |-> << >>,
                                             cause |-> "none"]))
    /\ [][exc # "none" => ran' = ran /\ issues' = issues /\ exc' = exc]_vars

\* A stage after the node check raised with an Error in the ledger.
C20_Witness ==
    /\ vpc = "raised"
    /\ exc = "StageError"
    /\ doc.raiseAt \in LaterStages
    /\ Errors(issues) # << >>
    /\ outcome.kind = "ValidationError"
    /\ outcome.cause = "StageError"

====
